---- MODULE Spec2Model ----
(***************************************************************************)
(* Formal Concept Analysis engine (lca/lca_engine.py) and the topological  *)
(* truth verifier built on it (lca/truth_verifier.py).                     *)
(*                                                                         *)
(* Objects and attributes are identifiers.  Attributes are integers whose  *)
(* natural order is the order of Python's sorted() on the identifiers: for *)
(* text-derived contexts an attribute is the position of the lowercase     *)
(* word in Vocabulary, which is listed in lexicographic order.             *)
(* Python's None is the empty set and a present value x is {x}.            *)
(***************************************************************************)
EXTENDS Integers, Sequences, FiniteSets, TLC

VARIABLES
    context,    \* the FormalContext handed to NextClosureAlgorithm
    pc,         \* position inside generate_all_concepts
    current,    \* generate_all_concepts' local `current` (None or a set)
    concepts,   \* generate_all_concepts' local list `concepts`
    citations,  \* the caller's citation texts
    answer,     \* the caller's answer text
    ground_truth_lattice,   \* TruthVerifier.ground_truth_lattice
    answer_lattice,         \* TruthVerifier.answer_lattice
    ground_truth_context,   \* TruthVerifier.ground_truth_context
    answer_context,         \* TruthVerifier.answer_context
    returned,   \* the last call that returned to the caller, and its value
    stability,  \* the last value calculate_stability_index returned
    rng,        \* the state of Python's global random generator
    previous,   \* history: what the call before returned, when the last two
                \* calls were verify with the same arguments (else None)
    held,       \* history: the contexts the verifier held when its last
                \* verify or detect call began
    caller_lattice,     \* a ConceptLattice the caller built (None before)
    field,      \* the SemanticField (None before it is constructed)
    protocol    \* the AntigravityProtocol and its running execute call

genVars == <<context, pc, current, concepts>>

inputVars == <<citations, answer>>

verifierVars ==
    <<ground_truth_lattice, answer_lattice, ground_truth_context,
      answer_context>>

agVars == <<field, protocol>>

vars ==
    <<genVars, inputVars, verifierVars, returned, stability, rng, previous,
      held, caller_lattice, agVars>>

(***************************************************************************)
(* Bounds of the enumerated inputs.                                        *)
(***************************************************************************)
MaxObjs == 3

MaxAttrs == 3

\* The configured ceiling on generated concepts.  config.py sets it to
\* 10000; it is scaled to the contexts enumerated here.
LCA_MAX_CONCEPTS == 3

\* Longest citation text and longest answer text enumerated, in tokens
MaxCitationLen == 2

MaxAnswerLen == 3

\* Largest `samples` argument of calculate_stability_index enumerated
MaxSamples == 2

\* Number of states of the random generator that are told apart
RngStates == 2

\* Largest declared object set and attribute set of the contexts whose
\* methods are called one by one
MaxCtxObjs == 2

MaxCtxAttrs == 2

None == {}

Some(x) == {x}

TheValue(opt) == CHOOSE x \in opt : TRUE

(***************************************************************************)
(* sorted(): the ascending list of a set of integers.                      *)
(***************************************************************************)
RECURSIVE sorted(_)
sorted(S) ==
    IF S = {} THEN <<>>
    ELSE LET mn == CHOOSE x \in S : \A y \in S : x <= y
         IN  <<mn>> \o sorted(S \ {mn})

\* list.index(m), 0-based
index(list, m) == (CHOOSE k \in 1..Len(list) : list[k] = m) - 1

(***************************************************************************)
(* FormalContext                                                           *)
(***************************************************************************)
\* The lookup tables filled with only the object of a pair checked
FormalContext_ObjectGuardOnly(objects, attributes, incidence) ==
    [objects    |-> objects,
     attributes |-> attributes,
     incidence  |-> incidence,
     obj_attrs  |-> [g \in objects |->
                        {p[2] : p \in {q \in incidence : q[1] = g}}],
     attr_objs  |-> [m \in attributes |->
                        {g \in objects : <<g, m>> \in incidence}]]

FormalContext(objects, attributes, incidence) ==
    [objects    |-> objects,
     attributes |-> attributes,
     incidence  |-> incidence,
     obj_attrs  |-> [g \in objects |->
                        {m \in attributes : <<g, m>> \in incidence}],
     attr_objs  |-> [m \in attributes |->
                        {g \in objects : <<g, m>> \in incidence}]]

get_attributes(ctx, obj) ==
    IF obj \in DOMAIN ctx.obj_attrs THEN ctx.obj_attrs[obj] ELSE {}

get_objects(ctx, attr) ==
    IF attr \in DOMAIN ctx.attr_objs THEN ctx.attr_objs[attr] ELSE {}

\* The derivation of no attributes taken to be no objects
derive_extent_EmptyIsEmpty(ctx, attributes) ==
    IF attributes = {} THEN {}
    ELSE LET first == CHOOSE a \in attributes : TRUE
         IN  {g \in get_objects(ctx, first) :
                 \A attr \in attributes : g \in get_objects(ctx, attr)}

\* Only the first attribute looked at, the intersection left out
derive_extent_FirstOnly(ctx, attributes) ==
    IF attributes = {} THEN ctx.objects
    ELSE get_objects(ctx, CHOOSE a \in attributes : TRUE)

derive_extent(ctx, attributes) ==
    IF attributes = {} THEN ctx.objects
    ELSE LET first == CHOOSE a \in attributes : TRUE
         IN  {g \in get_objects(ctx, first) :
                 \A attr \in attributes : g \in get_objects(ctx, attr)}

\* The derivation of no objects taken to be no attributes
derive_intent_EmptyIsEmpty(ctx, objects) ==
    IF objects = {} THEN {}
    ELSE LET first == CHOOSE g \in objects : TRUE
         IN  {m \in get_attributes(ctx, first) :
                 \A obj \in objects : m \in get_attributes(ctx, obj)}

derive_intent(ctx, objects) ==
    IF objects = {} THEN ctx.attributes
    ELSE LET first == CHOOSE g \in objects : TRUE
         IN  {m \in get_attributes(ctx, first) :
                 \A obj \in objects : m \in get_attributes(ctx, obj)}

closure(ctx, attributes) == derive_intent(ctx, derive_extent(ctx, attributes))

is_closed(ctx, attributes) == closure(ctx, attributes) = attributes

(***************************************************************************)
(* NextClosureAlgorithm                                                    *)
(***************************************************************************)
attributes_list(ctx) == sorted(ctx.attributes)

\* next_closure's acceptance test at position i: the closure adds no
\* attribute at a position <= i.
IsCanonical_Unchecked(list, candidate, cl, i) == TRUE

IsCanonical(list, candidate, cl, i) ==
    \A m \in cl : m \notin candidate => ~(index(list, m) <= i)

\* next_closure's candidate at an attribute that is not in current
Candidate_Unflipped(cur, attr) == cur

Candidate(cur, attr) == cur \cup {attr}

\* next_closure's `else` branch at an attribute that is in current
Backtrack_Keep(cur, attr) == cur

Backtrack(cur, attr) == cur \ {attr}

\* The scan of next_closure from position i down to 0.
RECURSIVE NextClosureScan(_, _, _, _)
NextClosureScan(ctx, list, cur, i) ==
    IF i < 0 THEN None
    ELSE LET attr == list[i + 1]
         IN  IF attr \notin cur
             THEN LET candidate == Candidate(cur, attr)
                      cl == closure(ctx, candidate)
                  IN  IF IsCanonical(list, candidate, cl, i)
                      THEN Some(cl)
                      ELSE NextClosureScan(ctx, list, cur, i - 1)
             ELSE NextClosureScan(ctx, list, Backtrack(cur, attr), i - 1)

\* The scan started one position before the last attribute
next_closure_SkipLast(ctx, cur) ==
    LET list == attributes_list(ctx)
    IN  NextClosureScan(ctx, list, cur, Len(list) - 2)

next_closure(ctx, cur) ==
    LET list == attributes_list(ctx)
    IN  NextClosureScan(ctx, list, cur, Len(list) - 1)

\* The two fields filled in the other order
FormalConcept_Swapped(extent, intent) == [extent |-> intent, intent |-> extent]

FormalConcept(extent, intent) == [extent |-> extent, intent |-> intent]

\* generate_all_concepts' while loop, run to its end
RECURSIVE GenerateLoop(_, _, _)
GenerateLoop(ctx, cur, cs) ==
    IF cur = None THEN cs
    ELSE LET intent == TheValue(cur)
             extent == derive_extent(ctx, intent)
         IN  GenerateLoop(ctx, next_closure(ctx, intent),
                          Append(cs, FormalConcept(extent, intent)))

generate_all_concepts(ctx) ==
    GenerateLoop(ctx, Some(closure(ctx, {})), <<>>)

(***************************************************************************)
(* Floats that are quotients of two integers, kept in lowest terms.        *)
(***************************************************************************)
RECURSIVE Gcd(_, _)
Gcd(a, b) == IF b = 0 THEN a ELSE Gcd(b, a % b)

Frac(n, d) == [num |-> n \div Gcd(n, d), den |-> d \div Gcd(n, d)]

FracLess(x, y) == x.num * y.den < y.num * x.den

(***************************************************************************)
(* ConceptLattice                                                          *)
(***************************************************************************)
\* frozenset `>`: proper superset
ProperSuperset(A, B) == B \subseteq A /\ A # B

\* Every edge added from the less specific concept to the more specific one
ConceptLattice_Reversed(cs) ==
    LET nodes == {cs[k] : k \in 1..Len(cs)}
    IN  [concepts |-> cs,
         nodes    |-> nodes,
         edges    |-> {e \in nodes \X nodes :
                         /\ e[1] # e[2]
                         /\ ProperSuperset(e[2].intent, e[1].intent)
                         /\ ~ \E c3 \in nodes :
                                /\ c3 # e[1]
                                /\ c3 # e[2]
                                /\ ProperSuperset(e[2].intent, c3.intent)
                                /\ ProperSuperset(c3.intent, e[1].intent)}]

\* An edge added for every pair in the order, the search for a concept in
\* between left out
ConceptLattice_AllPairs(cs) ==
    LET nodes == {cs[k] : k \in 1..Len(cs)}
    IN  [concepts |-> cs,
         nodes    |-> nodes,
         edges    |-> {e \in nodes \X nodes :
                         /\ e[1] # e[2]
                         /\ ProperSuperset(e[1].intent, e[2].intent)}]

ConceptLattice(cs) ==
    LET nodes == {cs[k] : k \in 1..Len(cs)}
    IN  [concepts |-> cs,
         nodes    |-> nodes,
         edges    |-> {e \in nodes \X nodes :
                         /\ e[1] # e[2]
                         /\ ProperSuperset(e[1].intent, e[2].intent)
                         /\ ~ \E c3 \in nodes :
                                /\ c3 # e[1]
                                /\ c3 # e[2]
                                /\ ProperSuperset(e[1].intent, c3.intent)
                                /\ ProperSuperset(c3.intent, e[2].intent)}]

successors(lattice, c) == {p \in lattice.nodes : <<c, p>> \in lattice.edges}

predecessors(lattice, c) == {p \in lattice.nodes : <<p, c>> \in lattice.edges}

\* An exception that leaves the call
Raise(exception) == [raised |-> exception]

\* get_top: the first concept of the list whose intent is empty, else None
get_top(lattice) ==
    LET hits == SelectSeq(lattice.concepts,
                          LAMBDA c : Cardinality(c.intent) = 0)
    IN  IF hits = <<>> THEN None ELSE Some(Head(hits))

\* get_bottom: max() of an empty sequence raises ValueError; otherwise the
\* first concept of the list whose intent has the largest size
get_bottom(lattice) ==
    IF Len(lattice.concepts) = 0 THEN Raise("ValueError")
    ELSE LET sizes == {Cardinality(lattice.concepts[k].intent) :
                          k \in 1..Len(lattice.concepts)}
             max_intent == CHOOSE n \in sizes : \A m \in sizes : m <= n
             hits == SelectSeq(lattice.concepts,
                               LAMBDA c : Cardinality(c.intent) = max_intent)
         IN  [value |-> Some(Head(hits))]

\* The edge count divided by the concept count, not by its square
calculate_density_PerConcept(lattice) ==
    LET num_concepts == Len(lattice.concepts)
    IN  IF num_concepts = 0 THEN Frac(0, 1)
        ELSE Frac(Cardinality(lattice.edges), num_concepts)

calculate_density(lattice) ==
    LET num_concepts == Len(lattice.concepts)
    IN  IF num_concepts = 0 THEN Frac(0, 1)
        ELSE Frac(Cardinality(lattice.edges), num_concepts * num_concepts)

find_irreducibles(lattice) ==
    [meet_irreducible |->
        SelectSeq(lattice.concepts,
                  LAMBDA c : Cardinality(successors(lattice, c)) = 1),
     join_irreducible |->
        SelectSeq(lattice.concepts,
                  LAMBDA c : Cardinality(predecessors(lattice, c)) = 1)]

\* The connected component of the nodes S in the undirected graph
RECURSIVE Component(_, _)
Component(lattice, S) ==
    LET T == S \cup {w \in lattice.nodes :
                        \E v \in S : \/ <<v, w>> \in lattice.edges
                                     \/ <<w, v>> \in lattice.edges}
    IN  IF T = S THEN S ELSE Component(lattice, T)

connected_components(lattice) ==
    {Component(lattice, {v}) : v \in lattice.nodes}

\* The cycle rank of a component taken to be e - v
RECURSIVE SumCycleRank_NoPlusOne(_, _)
SumCycleRank_NoPlusOne(lattice, comps) ==
    IF comps = {} THEN 0
    ELSE LET comp == CHOOSE c \in comps : TRUE
             e == Cardinality({{a, b} : <<a, b>> \in
                                 {x \in lattice.edges :
                                     x[1] \in comp /\ x[2] \in comp}})
             v == Cardinality(comp)
         IN  (e - v) + SumCycleRank_NoPlusOne(lattice, comps \ {comp})

RECURSIVE SumCycleRank(_, _)
SumCycleRank(lattice, comps) ==
    IF comps = {} THEN 0
    ELSE LET comp == CHOOSE c \in comps : TRUE
             e == Cardinality({{a, b} : <<a, b>> \in
                                 {x \in lattice.edges :
                                     x[1] \in comp /\ x[2] \in comp}})
             v == Cardinality(comp)
         IN  (e - v + 1) + SumCycleRank(lattice, comps \ {comp})

calculate_betti_numbers(lattice) ==
    [beta_0 |-> Cardinality(connected_components(lattice)),
     beta_1 |-> SumCycleRank(lattice, connected_components(lattice))]

\* calculate_stability_index's loop: every trial adds one to preserved_count
RECURSIVE PreservedCount(_)
PreservedCount(samples) ==
    IF samples = 0 THEN 0 ELSE PreservedCount(samples - 1) + 1

calculate_stability_index(concept, samples) ==
    IF Cardinality(concept.extent) = 0 THEN Frac(1, 1)
    ELSE Frac(PreservedCount(samples), samples)

(***************************************************************************)
(* text_to_context.  A text is a sequence of tokens: words as written and  *)
(* sentence terminators; whitespace separates tokens.                      *)
(***************************************************************************)
\* The lowercase words, in lexicographic order
Vocabulary ==
    <<"and", "are", "blue", "clouds", "day", "during", "green", "has", "is",
      "purple", "sky", "stars", "the", "visible", "white">>

\* The position of a lowercase word in the sorted vocabulary
WordId(w) == CHOOSE i \in 1..Len(Vocabulary) : Vocabulary[i] = w

\* str.lower()
lower(tok) ==
    CASE tok = "The"    -> "the"
      [] tok = "Clouds" -> "clouds"
      [] tok = "Stars"  -> "stars"
      [] tok = "Sky"    -> "sky"
      [] OTHER          -> tok

\* a match of [.!?]+
IsTerminator(tok) == tok \in {".", "!", "?"}

\* re.split(r'[.!?]+', text), stripped, the empty pieces dropped
RECURSIVE SplitSentences(_, _, _)
SplitSentences(text, piece, acc) ==
    LET done == IF piece = <<>> THEN acc ELSE Append(acc, piece)
    IN  IF text = <<>> THEN done
        ELSE IF IsTerminator(Head(text))
             THEN SplitSentences(Tail(text), <<>>, done)
             ELSE SplitSentences(Tail(text), Append(piece, Head(text)), acc)

text_to_context(text) ==
    LET sentences == SplitSentences(text, <<>>, <<>>)
        \* sentence_words["sent_i"]: i is the object identifier
        sentence_words ==
            [i \in 0..(Len(sentences) - 1) |->
                {WordId(lower(sentences[i + 1][j])) :
                    j \in 1..Len(sentences[i + 1])}]
        all_words == UNION {sentence_words[i] : i \in DOMAIN sentence_words}
        incidence == {p \in (DOMAIN sentence_words) \X all_words :
                         p[2] \in sentence_words[p[1]]}
    IN  FormalContext(DOMAIN sentence_words, all_words, incidence)

\* " ".join(citations)
RECURSIVE JoinCitations(_)
JoinCitations(texts) ==
    IF texts = <<>> THEN <<>>
    ELSE Head(texts) \o JoinCitations(Tail(texts))

(***************************************************************************)
(* TruthVerifier                                                           *)
(***************************************************************************)
\* The order in which a for loop visits a set
RECURSIVE IterationOrder(_)
IterationOrder(S) ==
    IF S = {} THEN <<>>
    ELSE LET x == CHOOSE y \in S : TRUE
         IN  <<x>> \o IterationOrder(S \ {x})

\* The subconcepts of a concept walked instead of its superconcepts
extract_relationships_Predecessors(lattice) ==
    UNION {{p \in c.intent \X c.intent : p[1] # p[2]} :
              c \in {d \in lattice.nodes : predecessors(lattice, d) # {}}}

extract_relationships(lattice) ==
    UNION {{p \in c.intent \X c.intent : p[1] # p[2]} :
              c \in {d \in lattice.nodes : successors(lattice, d) # {}}}

Hallucinated_Swapped(ans_relationships, gt_relationships, gt_attrs) ==
    IterationOrder({p \in gt_relationships :
                       /\ p \notin ans_relationships
                       /\ p[1] \in gt_attrs
                       /\ p[2] \in gt_attrs})

Hallucinated_AnyVocabulary(ans_relationships, gt_relationships, gt_attrs) ==
    IterationOrder({p \in ans_relationships : p \notin gt_relationships})

\* The loop that collects hallucinated (lines 112-119): every pair of
\* ans_relationships is visited once and the flagged ones are appended.
Hallucinated(ans_relationships, gt_relationships, gt_attrs) ==
    IterationOrder({p \in ans_relationships :
                       /\ p \notin gt_relationships
                       /\ p[1] \in gt_attrs
                       /\ p[2] \in gt_attrs})

Confidence_ZeroDefault(ans_relationships, hallucinated) ==
    IF Cardinality(ans_relationships) = 0 THEN Frac(0, 1)
    ELSE Frac(Cardinality(ans_relationships) - Len(hallucinated),
              Cardinality(ans_relationships))

Confidence_CountsInvalid(ans_relationships, hallucinated) ==
    IF Cardinality(ans_relationships) = 0 THEN Frac(1, 1)
    ELSE Frac(Len(hallucinated), Cardinality(ans_relationships))

Confidence(ans_relationships, hallucinated) ==
    IF Cardinality(ans_relationships) = 0 THEN Frac(1, 1)
    ELSE Frac(Cardinality(ans_relationships) - Len(hallucinated),
              Cardinality(ans_relationships))

\* gtl, ansl, gtc: self.ground_truth_lattice, self.answer_lattice,
\* self.ground_truth_context (None or a value)
CheckBody(gtl, ansl, gtc) ==
    IF gtl = None \/ ansl = None
    THEN [is_valid |-> FALSE,
          error |-> "Lattices not built",
          hallucinated_edges |-> <<>>,
          confidence |-> Frac(0, 1)]
    ELSE LET gt_relationships == extract_relationships(TheValue(gtl))
             ans_relationships == extract_relationships(TheValue(ansl))
             hallucinated ==
                 Hallucinated(ans_relationships, gt_relationships,
                              TheValue(gtc).attributes)
         IN  [is_valid |-> Len(hallucinated) = 0,
              hallucinated_edges |-> hallucinated,
              confidence |-> Confidence(ans_relationships, hallucinated),
              ground_truth_concepts |-> Len(TheValue(gtl).concepts),
              answer_concepts |-> Len(TheValue(ansl).concepts),
              ground_truth_relationships |-> Cardinality(gt_relationships),
              answer_relationships |-> Cardinality(ans_relationships)]

\* A check whose confidence is weighted by a draw of the random generator
check_topological_isomorphism_Sampled(gtl, ansl, gtc) ==
    IF rng = 0 THEN CheckBody(gtl, ansl, gtc)
    ELSE [CheckBody(gtl, ansl, gtc) EXCEPT !.confidence = Frac(0, 1)]

check_topological_isomorphism(gtl, ansl, gtc) == CheckBody(gtl, ansl, gtc)

LatticeMetrics(lattice) ==
    [density |-> calculate_density(lattice),
     betti |-> calculate_betti_numbers(lattice),
     irreducibles |-> find_irreducibles(lattice)]

\* verify after the two lattices are built (lines 150-169)
VerifyResult(gtl, ansl, gtc) ==
    check_topological_isomorphism(gtl, ansl, gtc)
    @@ [ground_truth_metrics |-> LatticeMetrics(TheValue(gtl)),
        answer_metrics |-> LatticeMetrics(TheValue(ansl))]

(***************************************************************************)
(* HallucinationDetector                                                   *)
(***************************************************************************)
Finding(p) ==
    [type |-> "topological_hallucination",
     description |-> <<"Invented relationship", p[1], p[2]>>,
     severity |-> "HIGH"]

DetectOutput_StatusSwapped(result) ==
    [status |-> IF result.is_valid THEN "HALLUCINATION_DETECTED" ELSE "VALID",
     confidence |-> result.confidence,
     hallucinations |->
         IF ~ result.is_valid
         THEN [k \in 1..Len(result.hallucinated_edges) |->
                  Finding(result.hallucinated_edges[k])]
         ELSE <<>>]

\* detect after verify returned result (lines 193-215)
DetectOutput(result) ==
    LET output ==
            [status |-> IF result.is_valid THEN "VALID"
                        ELSE "HALLUCINATION_DETECTED",
             confidence |-> result.confidence,
             hallucinations |->
                 IF ~ result.is_valid
                 THEN [k \in 1..Len(result.hallucinated_edges) |->
                          Finding(result.hallucinated_edges[k])]
                 ELSE <<>>]
        gt_complexity == result.ground_truth_metrics.betti.beta_1
        ans_complexity == result.answer_metrics.betti.beta_1
    IN  IF ans_complexity > gt_complexity * 2
        THEN output @@ [warnings |-> <<"more loops than source">>]
        ELSE output

(***************************************************************************)
(* Input contexts                                                          *)
(***************************************************************************)
\* lca_engine.py __main__: bird=1 cat=2 dog=3 fish=4;
\* flies=1 fur=2 legs=3 swims=4 (sorted order)
AnimalsContext ==
    FormalContext(1..4, 1..4,
        {<<3, 3>>, <<3, 2>>, <<2, 3>>, <<2, 2>>, <<1, 3>>, <<1, 1>>, <<4, 4>>})

\* test_glassbox.py test_lca_engine: obj1..obj3, attr1 attr2
TestContext ==
    FormalContext(1..3, 1..2, {<<1, 1>>, <<1, 2>>, <<2, 1>>})

\* Object identifiers are interchangeable, so one context is enumerated per
\* multiset of object rows: the rows are listed in non-decreasing RowCode.
RECURSIVE RowCode(_)
RowCode(S) ==
    IF S = {} THEN 0
    ELSE LET m == CHOOSE x \in S : TRUE
         IN  2 ^ (m - 1) + RowCode(S \ {m})

RowsInputs(no, na) ==
    {r \in [1..no -> SUBSET (1..na)] :
        \A g \in 1..(no - 1) : RowCode(r[g]) <= RowCode(r[g + 1])}

ContextInputs ==
    UNION {{FormalContext(1..d[1], 1..d[2],
                {p \in (1..d[1]) \X (1..d[2]) : p[2] \in rows[p[1]]}) :
               rows \in RowsInputs(d[1], d[2])} :
           d \in (0..MaxObjs) \X (0..MaxAttrs)}
    \cup {AnimalsContext, TestContext}

(***************************************************************************)
(* generate_all_concepts, one loop iteration per step                      *)
(***************************************************************************)
\* The state after TruthVerifier.__init__, with nothing called yet
VerifierConstructed ==
    /\ ground_truth_lattice = None
    /\ answer_lattice = None
    /\ ground_truth_context = None
    /\ answer_context = None
    /\ returned = [op |-> "none"]
    /\ stability = None
    /\ rng = 0
    /\ previous = None
    /\ held = <<None, None>>

\* No lattice built by the caller, no field and no protocol constructed
NothingElseConstructed ==
    /\ caller_lattice = None
    /\ field = None
    /\ protocol = None

GeneratorConstructed ==
    /\ pc = "ready"
    /\ current = None
    /\ concepts = <<>>

Init ==
    /\ context \in ContextInputs
    /\ GeneratorConstructed
    /\ citations = <<>>
    /\ answer = <<>>
    /\ VerifierConstructed
    /\ NothingElseConstructed

GenStart ==
    /\ pc = "ready"
    /\ concepts' = <<>>
    /\ current' = Some(closure(context, {}))
    /\ pc' = "loop"
    /\ UNCHANGED <<context, inputVars, verifierVars, returned, stability, rng,
                   previous, held, caller_lattice, agVars>>

GenIterate ==
    /\ pc = "loop"
    /\ current # None
    /\ LET intent == TheValue(current)
           extent == derive_extent(context, intent)
       IN  /\ concepts' = Append(concepts, FormalConcept(extent, intent))
           /\ current' = next_closure(context, intent)
    /\ UNCHANGED <<context, pc, inputVars, verifierVars, returned, stability,
                   rng, previous, held, caller_lattice, agVars>>

GenReturn ==
    /\ pc = "loop"
    /\ current = None
    /\ pc' = "returned"
    /\ UNCHANGED <<context, current, concepts, inputVars, verifierVars,
                   returned, stability, rng, previous, held,
                   caller_lattice, agVars>>

Next ==
    \/ GenStart
    \/ GenIterate
    \/ GenReturn

Spec == Init /\ [][Next]_vars

(***************************************************************************)
(* Input texts                                                             *)
(***************************************************************************)
\* test_glassbox.py test_hallucination_detection
ScenarioCitations ==
    <<<<"The", "sky", "is", "blue", ".">>, <<"Clouds", "are", "white", ".">>>>

AnswerA ==
    <<"The", "sky", "is", "blue", "and", "has", "white", "clouds", ".">>

TestInvalidAnswer ==
    <<"The", "sky", "is", "purple", "and", "green", ".">>

\* truth_verifier.py demo_hallucination_detection: hallucinated_answer
AnswerB ==
    <<"The", "sky", "is", "blue", "and", "green", ".",
      "Stars", "are", "visible", "during", "the", "day", ".">>

\* One citation of one sentence, and an answer of two sentences that uses
\* its two words and a third
OneSentenceCitations == <<<<"sky", "blue">>>>

\* Two citations that join into two sentences, "sky. blue"
TwoSentenceCitations == <<<<"sky", ".">>, <<"blue">>>>

MixedAnswer == <<"sky", "blue", ".", "green">>

TextAlphabet == {"sky", "blue", "."}

Texts(n) == UNION {[1..k -> TextAlphabet] : k \in 0..n}

CitationInputs ==
    {<<>>}
    \cup {<<t>> : t \in Texts(MaxCitationLen)}
    \cup {<<t[1], t[2]>> : t \in Texts(1) \X Texts(1)}
    \cup {ScenarioCitations, OneSentenceCitations, TwoSentenceCitations}

AnswerInputs ==
    Texts(MaxAnswerLen)
    \cup {AnswerA, AnswerB, TestInvalidAnswer, MixedAnswer}

SessionCitations == {ScenarioCitations, OneSentenceCitations}

SessionAnswers == {AnswerA, MixedAnswer}

(***************************************************************************)
(* TruthVerifier and HallucinationDetector calls                           *)
(***************************************************************************)
\* A verifier that keeps the ground truth it already holds
GroundTruthBuilt_Cached(c) ==
    IF ground_truth_lattice # None
    THEN UNCHANGED <<ground_truth_context, ground_truth_lattice>>
    ELSE /\ ground_truth_context' = Some(text_to_context(JoinCitations(c)))
         /\ ground_truth_lattice' =
                Some(ConceptLattice(
                    generate_all_concepts(TheValue(ground_truth_context'))))

\* build_ground_truth_lattice's assignments
GroundTruthBuilt(c) ==
    /\ ground_truth_context' = Some(text_to_context(JoinCitations(c)))
    /\ ground_truth_lattice' =
           Some(ConceptLattice(
                    generate_all_concepts(TheValue(ground_truth_context'))))

\* build_answer_lattice's assignments
AnswerBuilt(a) ==
    /\ answer_context' = Some(text_to_context(a))
    /\ answer_lattice' =
           Some(ConceptLattice(
                    generate_all_concepts(TheValue(answer_context'))))

BuildGroundTruthLattice(c) ==
    /\ GroundTruthBuilt(c)
    /\ UNCHANGED <<genVars, inputVars, answer_lattice, answer_context,
                   returned, stability, rng, previous, held,
                   caller_lattice, agVars>>

BuildAnswerLattice(a) ==
    /\ AnswerBuilt(a)
    /\ UNCHANGED <<genVars, inputVars, ground_truth_lattice,
                   ground_truth_context, returned, stability, rng, previous,
                   held, caller_lattice, agVars>>

CheckTopologicalIsomorphism ==
    /\ returned' =
           [op |-> "check_topological_isomorphism",
            value |-> check_topological_isomorphism(
                          ground_truth_lattice, answer_lattice,
                          ground_truth_context)]
    /\ UNCHANGED <<genVars, inputVars, verifierVars, stability, rng, previous,
                   held, caller_lattice, agVars>>

Verify(c, a) ==
    /\ GroundTruthBuilt(c)
    /\ AnswerBuilt(a)
    /\ returned' =
           [op |-> "verify", citations |-> c, answer |-> a,
            value |-> VerifyResult(ground_truth_lattice', answer_lattice',
                                   ground_truth_context')]
    /\ previous' = IF /\ returned.op = "verify"
                      /\ returned.citations = c
                      /\ returned.answer = a
                   THEN Some(returned.value)
                   ELSE None
    /\ held' = <<ground_truth_context, answer_context>>
    /\ UNCHANGED <<genVars, inputVars, stability, rng, caller_lattice, agVars>>

Detect(c, a) ==
    /\ GroundTruthBuilt(c)
    /\ AnswerBuilt(a)
    /\ returned' =
           [op |-> "detect", citations |-> c, answer |-> a,
            value |-> DetectOutput(
                          VerifyResult(ground_truth_lattice', answer_lattice',
                                       ground_truth_context'))]
    /\ held' = <<ground_truth_context, answer_context>>
    /\ UNCHANGED <<genVars, inputVars, stability, rng, previous,
                   caller_lattice, agVars>>

\* calculate_stability_index on a concept of a lattice the verifier holds;
\* each trial draws from the random generator
StabilityIndex ==
    /\ \E lattice \in ground_truth_lattice \cup answer_lattice :
         \E k \in 1..Len(lattice.concepts), samples \in 1..MaxSamples :
           /\ stability' =
                  Some(calculate_stability_index(lattice.concepts[k], samples))
           /\ IF Cardinality(lattice.concepts[k].extent) = 0
              THEN rng' = rng
              ELSE rng' \in 0..(RngStates - 1)
    /\ UNCHANGED <<genVars, inputVars, verifierVars, returned, previous,
                   held, caller_lattice, agVars>>

\* One verification of the caller's inputs on a new verifier
InitVerify ==
    /\ context = TestContext
    /\ GeneratorConstructed
    /\ citations \in CitationInputs
    /\ answer \in AnswerInputs
    /\ VerifierConstructed
    /\ NothingElseConstructed

NextVerify ==
    \/ Verify(citations, answer)
    \/ Detect(citations, answer)

SpecVerify == InitVerify /\ [][NextVerify]_vars

\* Any sequence of calls on one verifier
InitSession ==
    /\ context = TestContext
    /\ GeneratorConstructed
    /\ citations = <<>>
    /\ answer = <<>>
    /\ VerifierConstructed
    /\ NothingElseConstructed

NextSession ==
    \/ \E c \in SessionCitations : BuildGroundTruthLattice(c)
    \/ \E a \in SessionAnswers : BuildAnswerLattice(a)
    \/ CheckTopologicalIsomorphism
    \/ \E c \in SessionCitations, a \in SessionAnswers : Verify(c, a)
    \/ \E c \in SessionCitations, a \in SessionAnswers : Detect(c, a)
    \/ StabilityIndex

SpecSession == InitSession /\ [][NextSession]_vars

(***************************************************************************)
(* Calls on one FormalContext.  Declared objects and attributes are        *)
(* 1..n; the identifier 0 is never declared.                               *)
(***************************************************************************)
ObjectIds == 0..MaxCtxObjs

AttributeIds == 0..MaxCtxAttrs

\* Incidence pairs that name an undeclared object or an undeclared attribute
StrayInputs == {{}, {<<0, 0>>}, {<<0, 1>>}, {<<1, 0>>}}

DeclaredContextInputs ==
    UNION {{FormalContext(1..d[1], 1..d[2],
                {p \in (1..d[1]) \X (1..d[2]) : p[2] \in rows[p[1]]}) :
               rows \in RowsInputs(d[1], d[2])} :
           d \in (0..MaxCtxObjs) \X (0..MaxCtxAttrs)}

CallContextInputs ==
    {FormalContext(ctx.objects, ctx.attributes, ctx.incidence \cup stray) :
        ctx \in DeclaredContextInputs, stray \in StrayInputs}

InitContext ==
    /\ context \in CallContextInputs
    /\ GeneratorConstructed
    /\ citations = <<>>
    /\ answer = <<>>
    /\ VerifierConstructed
    /\ NothingElseConstructed

callVars ==
    <<context, pc, current, concepts, inputVars, verifierVars, stability, rng,
      held, agVars>>

GetAttributes(obj) ==
    /\ returned' = [op |-> "get_attributes", obj |-> obj,
                    value |-> get_attributes(context, obj)]
    /\ previous' = None
    /\ UNCHANGED <<callVars, caller_lattice>>

GetObjects(attr) ==
    /\ returned' = [op |-> "get_objects", attr |-> attr,
                    value |-> get_objects(context, attr)]
    /\ previous' = None
    /\ UNCHANGED <<callVars, caller_lattice>>

DeriveExtent(attributes) ==
    /\ returned' = [op |-> "derive_extent", attributes |-> attributes,
                    value |-> derive_extent(context, attributes)]
    /\ previous' = None
    /\ UNCHANGED <<callVars, caller_lattice>>

DeriveIntent(objects) ==
    /\ returned' = [op |-> "derive_intent", objects |-> objects,
                    value |-> derive_intent(context, objects)]
    /\ previous' = None
    /\ UNCHANGED <<callVars, caller_lattice>>

\* previous keeps the closure call made just before this one when this call
\* continues it: its argument is that call's result or includes that call's
\* argument
Closure(attributes) ==
    /\ returned' = [op |-> "closure", attributes |-> attributes,
                    value |-> closure(context, attributes)]
    /\ previous' = IF /\ returned.op = "closure"
                      /\ \/ attributes = returned.value
                         \/ returned.attributes \subseteq attributes
                   THEN Some(returned)
                   ELSE None
    /\ UNCHANGED <<callVars, caller_lattice>>

GenerateAllConcepts ==
    /\ returned' = [op |-> "generate_all_concepts",
                    value |-> generate_all_concepts(context)]
    /\ previous' = None
    /\ UNCHANGED <<callVars, caller_lattice>>

BuildLattice ==
    /\ returned' = [op |-> "ConceptLattice",
                    value |-> ConceptLattice(generate_all_concepts(context))]
    /\ caller_lattice' = Some(returned'.value)
    /\ previous' = None
    /\ UNCHANGED callVars

NextContext ==
    \/ \E obj \in ObjectIds : GetAttributes(obj)
    \/ \E attr \in AttributeIds : GetObjects(attr)
    \/ \E attributes \in SUBSET AttributeIds : DeriveExtent(attributes)
    \/ \E objects \in SUBSET ObjectIds : DeriveIntent(objects)
    \/ \E attributes \in SUBSET AttributeIds : Closure(attributes)

SpecContext == InitContext /\ [][NextContext]_vars

\* The concepts and the lattice of one FormalContext
\* ConceptLattice([])
BuildEmptyLattice ==
    /\ returned' = [op |-> "ConceptLattice([])",
                    value |-> ConceptLattice(<<>>)]
    /\ caller_lattice' = Some(returned'.value)
    /\ previous' = None
    /\ UNCHANGED callVars

GetTop ==
    /\ caller_lattice # None
    /\ returned' = [op |-> "get_top",
                    value |-> get_top(TheValue(caller_lattice))]
    /\ previous' = None
    /\ UNCHANGED <<callVars, caller_lattice>>

GetBottom ==
    /\ caller_lattice # None
    /\ returned' = [op |-> "get_bottom"] @@ get_bottom(TheValue(caller_lattice))
    /\ previous' = None
    /\ UNCHANGED <<callVars, caller_lattice>>

CalculateDensity ==
    /\ caller_lattice # None
    /\ returned' = [op |-> "calculate_density",
                    value |-> calculate_density(TheValue(caller_lattice))]
    /\ previous' = None
    /\ UNCHANGED <<callVars, caller_lattice>>

CalculateBettiNumbers ==
    /\ caller_lattice # None
    /\ returned' = [op |-> "calculate_betti_numbers",
                    value |-> calculate_betti_numbers(
                                  TheValue(caller_lattice))]
    /\ previous' = None
    /\ UNCHANGED <<callVars, caller_lattice>>

\* TruthVerifier.extract_relationships called on the caller's lattice
ExtractRelationships ==
    /\ caller_lattice # None
    /\ returned' = [op |-> "extract_relationships",
                    value |-> extract_relationships(TheValue(caller_lattice))]
    /\ previous' = None
    /\ UNCHANGED <<callVars, caller_lattice>>

NextLattice ==
    \/ GenerateAllConcepts
    \/ BuildLattice
    \/ BuildEmptyLattice
    \/ GetTop
    \/ GetBottom
    \/ CalculateDensity
    \/ CalculateBettiNumbers
    \/ ExtractRelationships

InitLattice ==
    /\ context \in CallContextInputs \cup {AnimalsContext, TestContext}
    /\ GeneratorConstructed
    /\ citations = <<>>
    /\ answer = <<>>
    /\ VerifierConstructed
    /\ NothingElseConstructed

SpecLattice == InitLattice /\ [][NextLattice]_vars

\* generate_all_concepts on the same contexts, one loop iteration per step.
\* The call runs on: a started generation keeps taking its next step.
SpecFair == InitLattice /\ [][Next]_vars /\ WF_vars(Next)

\* calculate_stability_index on a concept of the caller's lattice.  draws
\* lists the subsets random.sample returned, one per trial: each is a
\* non-empty subset of the concept's extent.
StabilitySample ==
    /\ caller_lattice # None
    /\ \E k \in 1..Len(TheValue(caller_lattice).concepts),
          samples \in 1..MaxSamples :
         LET concept == TheValue(caller_lattice).concepts[k]
         IN  IF Cardinality(concept.extent) = 0
             THEN /\ returned' =
                         [op |-> "calculate_stability_index",
                          concept |-> concept, samples |-> samples,
                          draws |-> <<>>,
                          value |-> calculate_stability_index(concept,
                                                              samples)]
                  /\ rng' = rng
             ELSE \E draws \in [1..samples ->
                                   (SUBSET concept.extent) \ {{}}] :
                     /\ returned' =
                            [op |-> "calculate_stability_index",
                             concept |-> concept, samples |-> samples,
                             draws |-> draws,
                             value |-> calculate_stability_index(concept,
                                                                 samples)]
                     /\ rng' \in 0..(RngStates - 1)
    /\ stability' = Some(returned'.value)
    /\ previous' = None
    /\ UNCHANGED <<genVars, inputVars, verifierVars, held, caller_lattice,
                   agVars>>

InitStability ==
    /\ context \in {TestContext, AnimalsContext}
    /\ GeneratorConstructed
    /\ citations = <<>>
    /\ answer = <<>>
    /\ VerifierConstructed
    /\ NothingElseConstructed

NextStability ==
    \/ BuildLattice
    \/ StabilitySample

SpecStability == InitStability /\ [][NextStability]_vars

(***************************************************************************)
(* The particle field (lmpwf/lei_particle.py, lmpwf/field_simulator.py)    *)
(* and the antigravity protocol run on it (lmpwf/antigravity.py).          *)
(*                                                                         *)
(* Positions and velocities are triples of integers.  Masses and the mass  *)
(* threshold are counted in hundredths, so that from_token's default mass  *)
(* 0.5 * 0.5 is 25.  The field's time is counted in steps of dt.  The      *)
(* charge, provenance_weight and emotional_intensity of a particle are     *)
(* read by nothing that execute calls and are left out.                    *)
(***************************************************************************)
\* Largest field on which particles are added and execute is started
MaxParticles == 2

\* Longest explicit coherence_tokens list handed to the protocol
MaxTokens == 2

\* Largest max_steps argument of execute, and the most direct update calls
MaxSteps == 2

Zero == Frac(0, 1)

SquaredNorm(v) == v[1] * v[1] + v[2] * v[2] + v[3] * v[3]

Plus(a, b) == <<a[1] + b[1], a[2] + b[2], a[3] + b[3]>>

Minus(a, b) == <<a[1] - b[1], a[2] - b[2], a[3] - b[3]>>

Min(a, b) == IF a < b THEN a ELSE b

\* A particle object of class cls.  The dataclass is declared with eq and
\* without frozen, so the class and its two subclasses have __hash__ None.
LeiParticle(cls, token, mass, position, velocity) ==
    [class |-> cls, token |-> token, mass |-> mass, position |-> position,
     velocity |-> velocity]

from_token(token, position, velocity) ==
    LeiParticle("LeiParticle", token, 25, position, velocity)

TraumaAttractor_create(token, trauma_mass, position) ==
    LeiParticle("TraumaAttractor", token, trauma_mass, position,
                <<0, 0, 0>>)

CoherenceLift_create(token, position) ==
    LeiParticle("CoherenceLift", token, 5000, position, <<0, 0, 5>>)

\* SemanticField() with gravity_constant 0.5
SemanticField ==
    [particles |-> <<>>, gravity_constant |-> Frac(1, 2), time |-> 0,
     total_energy |-> Zero, phi |-> Zero, alpha |-> Zero]

add_particle(f, particle) == [f EXCEPT !.particles = Append(@, particle)]

\* The particles at or above the threshold, in list order.  The fields
\* enumerated here hold at most one such particle, so the sort by pull
\* strength leaves the list as it was built.
detect_gravity_wells(f, high_mass_threshold) ==
    SelectSeq(f.particles, LAMBDA p : p.mass >= high_mass_threshold)

\* The metrics of a field of fewer than two particles.  Their other
\* branches run float arithmetic over two or more particles; no call made
\* here reaches them, because update raises before its metrics on every
\* field that holds a particle.
calculate_field_energy(f) == CASE f.particles = <<>> -> Zero

calculate_phi(f) == CASE Len(f.particles) < 2 -> Zero

calculate_alpha(f) == CASE Len(f.particles) < 2 -> Zero

\* One simulation step.  Its first statement builds a dict keyed by the
\* particles, which are unhashable: on a field that holds a particle it
\* raises TypeError before anything is changed.
update(f) ==
    IF f.particles # <<>>
    THEN Raise("TypeError")
    ELSE [f EXCEPT !.total_energy = calculate_field_energy(f),
                   !.phi = calculate_phi(f),
                   !.alpha = calculate_alpha(f),
                   !.time = @ + 1]

DefaultCoherenceTokens ==
    <<"Sovereignty", "Lattice", "Cathedral", "Logic", "Structure", "Truth",
      "Clarity">>

\* AntigravityProtocol(field, coherence_tokens=...), thresholds at their
\* defaults 75.0 and 0.85.  frame holds the local variables of a running
\* execute call (None when none is running).
AntigravityProtocol(coherence_tokens) ==
    [escape_velocity_threshold |-> 7500,
     phase_lock_threshold |-> Frac(17, 20),
     coherence_tokens |-> IF coherence_tokens = None
                          THEN DefaultCoherenceTokens
                          ELSE TheValue(coherence_tokens),
     antigravity_active |-> FALSE,
     escape_trajectory |-> None,
     frame |-> None]

\* current_speed < calculate_escape_velocity(well_particle, position),
\* both sides squared twice: with d the distance (0.1 when it is below
\* 0.1, which on integer coordinates is distance 0) the test is
\* speed^2 < 2 * G * mass / d, that is speed^4 * d^2 < (2 * G * mass)^2.
BelowEscapeVelocity(f, well_particle, particle) ==
    LET d2 == SquaredNorm(Minus(particle.position, well_particle.position))
        d2Hundredths == IF d2 = 0 THEN 1 ELSE 100 * d2
        s2 == SquaredNorm(particle.velocity)
        G == f.gravity_constant
    IN  s2 * s2 * d2Hundredths * G.den * G.den * 100
            < 4 * G.num * G.num * well_particle.mass * well_particle.mass

\* The test of detect_trapped_particles on one particle and one well.
\* The particles of a field carry distinct tokens, so dataclass equality
\* is equality of the records.
Trapped(f, well_particle, particle) ==
    /\ particle # well_particle
    /\ SquaredNorm(Minus(particle.position, well_particle.position)) < 25
    /\ BelowEscapeVelocity(f, well_particle, particle)

\* The list of (trapped particle, well) pairs, wells outermost
detect_trapped_particles(f, p) ==
    LET wells == detect_gravity_wells(f, p.escape_velocity_threshold)
        caught(well) ==
            SelectSeq(f.particles, LAMBDA q : Trapped(f, well, q))
        collect[k \in 0..Len(wells)] ==
            IF k = 0
            THEN <<>>
            ELSE collect[k - 1]
                    \o [i \in 1..Len(caught(wells[k])) |->
                            <<caught(wells[k])[i], wells[k]>>]
    IN  collect[Len(wells)]

\* The random offsets and positions told apart: np.random draws floats,
\* of which these integer triples are the representatives.
Offsets == {<<0, 0, 0>>, <<1, 0, 0>>}

\* inject_coherence_lift with the drawn offsets: the field with the lift
\* particles appended, and the list of them
inject_coherence_lift(f, p, target_particles, num_lift_particles, offsets) ==
    LET n == Min(num_lift_particles, Len(p.coherence_tokens))
        position(i) ==
            IF target_particles # <<>>
            THEN Plus(target_particles[1].position, offsets[i])
            ELSE offsets[i]
        injected ==
            [i \in 1..n |->
                CoherenceLift_create(p.coherence_tokens[i], position(i))]
    IN  [field |-> [f EXCEPT !.particles = @ \o injected],
         injected |-> injected]

check_phase_lock(f, p) ==
    ~FracLess(calculate_alpha(f), p.phase_lock_threshold)

\* The particles a caller adds: the two of test_antigravity_protocol, one
\* beyond the influence radius, one faster than the escape velocity and
\* one at the position of the well.
ParticlePool ==
    {TraumaAttractor_create("Trauma", 10000, <<5, 5, 0>>),
     from_token("Thought", <<4, 4, 0>>, <<0, 0, 0>>),
     from_token("Far", <<9, 9, 0>>, <<0, 0, 0>>),
     from_token("Fast", <<5, 4, 0>>, <<11, 0, 0>>),
     from_token("Close", <<5, 5, 0>>, <<0, 0, 0>>)}

\* The coherence_tokens arguments: None for the default list, or a prefix
\* of it
TokenInputs ==
    {None} \cup {Some(SubSeq(DefaultCoherenceTokens, 1, n)) :
                    n \in 0..MaxTokens}

Tokens(f) == {f.particles[i].token : i \in 1..Len(f.particles)}

\* field.add_particle(particle) by the caller, between execute calls
AddParticle ==
    /\ protocol.frame = None
    /\ Len(field.particles) < MaxParticles
    /\ \E particle \in ParticlePool :
         /\ particle.token \notin Tokens(field)
         /\ field' = add_particle(field, particle)
    /\ returned' = [op |-> "add_particle"]
    /\ UNCHANGED <<genVars, inputVars, verifierVars, stability, rng,
                   previous, held, caller_lattice, protocol>>

\* field.update() by the caller, between execute calls
Update ==
    /\ protocol.frame = None
    /\ field.time < MaxSteps
    /\ LET stepped == update(field)
       IN  IF "raised" \in DOMAIN stepped
           THEN /\ returned' = [op |-> "update", value |-> stepped]
                /\ field' = field
           ELSE /\ returned' = [op |-> "update", value |-> None]
                /\ field' = stepped
    /\ UNCHANGED <<genVars, inputVars, verifierVars, stability, rng,
                   previous, held, caller_lattice, protocol>>

\* What a finished execute call leaves for the caller.  before and after
\* are the field when the call began and when it ended, trapped is what
\* step 1 detected and updates counts the field.update() calls that
\* completed.
ExecuteOutcome(max_steps, before, after, trapped, updates, value) ==
    [op |-> "execute", max_steps |-> max_steps, before |-> before,
     after |-> after, trapped |-> trapped, updates |-> updates,
     value |-> value]

\* execute(max_steps) up to the simulation loop: detection, the early
\* return, injection of the lift particles
ExecuteStart ==
    /\ protocol.frame = None
    /\ Len(field.particles) <= MaxParticles
    /\ \E max_steps \in 0..MaxSteps :
         LET trapped == detect_trapped_particles(field, protocol)
             target_particles == [i \in 1..Len(trapped) |-> trapped[i][1]]
             n == Min(3, Len(protocol.coherence_tokens))
         IN  IF trapped = <<>>
             THEN /\ returned' =
                        ExecuteOutcome(max_steps, field, field, trapped, 0,
                            [status |-> "NO_GRAVITY_WELLS",
                             alpha |-> field.alpha, phi |-> field.phi])
                  /\ UNCHANGED <<field, protocol>>
             ELSE \E offsets \in [1..n -> Offsets] :
                    LET lift == inject_coherence_lift(field, protocol,
                                    target_particles, 3, offsets)
                    IN  /\ field' = lift.field
                        /\ protocol' =
                             [protocol EXCEPT
                                !.antigravity_active = TRUE,
                                !.frame =
                                    Some([max_steps |-> max_steps,
                                          step |-> 0,
                                          trajectory |-> <<>>,
                                          lift_particles |-> lift.injected,
                                          before |-> field,
                                          trapped |-> trapped])]
                        /\ UNCHANGED returned
    /\ UNCHANGED <<genVars, inputVars, verifierVars, stability, rng,
                   previous, held, caller_lattice>>

LiftTokens(lift_particles) ==
    [i \in 1..Len(lift_particles) |-> lift_particles[i].token]

\* One iteration of the simulation loop: field.update(), the trajectory
\* entry, the phase-lock test and its return.  An exception of update
\* leaves execute.
ExecuteStep ==
    /\ protocol.frame # None
    /\ LET fr == TheValue(protocol.frame)
           stepped == update(field)
       IN  /\ fr.step < fr.max_steps
           /\ IF "raised" \in DOMAIN stepped
              THEN /\ returned' =
                         ExecuteOutcome(fr.max_steps, fr.before, field,
                                        fr.trapped, fr.step, stepped)
                   /\ protocol' = [protocol EXCEPT !.frame = None]
                   /\ field' = field
              ELSE LET state == [step |-> fr.step, alpha |-> stepped.alpha,
                                 phi |-> stepped.phi,
                                 energy |-> stepped.total_energy]
                       trajectory == Append(fr.trajectory, state)
                   IN  /\ field' = stepped
                       /\ IF check_phase_lock(stepped, protocol)
                          THEN /\ returned' =
                                    ExecuteOutcome(fr.max_steps, fr.before,
                                        stepped, fr.trapped, fr.step + 1,
                                        [status |-> "ESCAPE_ACHIEVED",
                                         steps_to_escape |-> fr.step,
                                         final_alpha |-> stepped.alpha,
                                         final_phi |-> stepped.phi,
                                         final_energy |->
                                             stepped.total_energy,
                                         trajectory |-> trajectory,
                                         lift_particles_used |->
                                             LiftTokens(fr.lift_particles)])
                               /\ protocol' =
                                    [protocol EXCEPT
                                       !.escape_trajectory =
                                           Some(trajectory),
                                       !.frame = None]
                          ELSE /\ protocol' =
                                    [protocol EXCEPT
                                       !.frame =
                                           Some([fr EXCEPT
                                                   !.step = @ + 1,
                                                   !.trajectory =
                                                       trajectory])]
                               /\ UNCHANGED returned
    /\ UNCHANGED <<genVars, inputVars, verifierVars, stability, rng,
                   previous, held, caller_lattice>>

\* The loop ran out of steps: the timeout return
ExecuteReturn ==
    /\ protocol.frame # None
    /\ LET fr == TheValue(protocol.frame)
       IN  /\ fr.step >= fr.max_steps
           /\ returned' =
                ExecuteOutcome(fr.max_steps, fr.before, field, fr.trapped,
                    fr.step,
                    [status |-> "ESCAPE_INCOMPLETE",
                     final_alpha |-> field.alpha,
                     final_phi |-> field.phi,
                     final_energy |-> field.total_energy,
                     trajectory |-> fr.trajectory,
                     lift_particles_used |->
                         LiftTokens(fr.lift_particles)])
           /\ protocol' = [protocol EXCEPT
                             !.escape_trajectory = Some(fr.trajectory),
                             !.frame = None]
    /\ UNCHANGED <<genVars, inputVars, verifierVars, stability, rng,
                   previous, held, caller_lattice, field>>

InitAntigravity ==
    /\ context = TestContext
    /\ GeneratorConstructed
    /\ citations = <<>>
    /\ answer = <<>>
    /\ VerifierConstructed
    /\ caller_lattice = None
    /\ field = SemanticField
    /\ protocol \in {AntigravityProtocol(t) : t \in TokenInputs}

NextAntigravity ==
    \/ AddParticle
    \/ Update
    \/ ExecuteStart
    \/ ExecuteStep
    \/ ExecuteReturn

SpecAntigravity == InitAntigravity /\ [][NextAntigravity]_vars

(***************************************************************************)
(* Properties of concept generation                                        *)
(***************************************************************************)
Intents == {concepts[k].intent : k \in 1..Len(concepts)}

\* The closed attribute sets by brute force: the closure of every subset.
ClosedSets(ctx) == {closure(ctx, X) : X \in SUBSET ctx.attributes}

\* Attributes at positions 0..i-1 of the sorted attribute list
Before(list, i) == {list[k] : k \in 1..i}

\* A precedes B in the lectic order of the attribute list
LecticLess(list, A, B) ==
    \E i \in 0..(Len(list) - 1) :
        /\ list[i + 1] \in B
        /\ list[i + 1] \notin A
        /\ A \cap Before(list, i) = B \cap Before(list, i)

\* C1: the list generate_all_concepts returns holds exactly the closed
\* attribute sets obtained by brute force, {closure(X) : X subset of M},
\* none missing, and no intent appears twice in the list (at any point of
\* the generation).
C1_ExactlyAllConceptsOnce ==
    /\ \A j, k \in 1..Len(concepts) :
           concepts[j].intent = concepts[k].intent => j = k
    /\ pc = "returned" => Intents = ClosedSets(context)

C1_Witness ==
    /\ pc = "returned"
    /\ context = AnimalsContext
    /\ Len(concepts) = 6

\* C2: the returned intents are in strictly increasing lectic order of the
\* sorted attribute list: the first is closure(empty set) and each intent
\* lectically precedes its successor in the list.
C2_LecticOrder ==
    /\ Len(concepts) >= 1 => concepts[1].intent = closure(context, {})
    /\ \A k \in 1..(Len(concepts) - 1) :
           LecticLess(attributes_list(context),
                      concepts[k].intent, concepts[k + 1].intent)

C2_Witness ==
    /\ pc = "returned"
    /\ Len(concepts) = 8
    /\ concepts[2].intent = {3}
    /\ concepts[4].intent = {2, 3}

\* C3: a context with more concepts than the configured ceiling makes
\* generate_all_concepts abort, so a returned list never holds more than
\* LCA_MAX_CONCEPTS concepts.
C3_CeilingEnforced ==
    pc = "returned" => Len(concepts) <= LCA_MAX_CONCEPTS

(***************************************************************************)
(* Properties of verification                                              *)
(***************************************************************************)
SeqSet(q) == {q[k] : k \in 1..Len(q)}

NoDuplicates(q) == \A j, k \in 1..Len(q) : q[j] = q[k] => j = k

\* relationships(ground-truth lattice), relationships(answer lattice) and the
\* ground-truth vocabulary of the lattices the verifier holds
GtRelationships == extract_relationships(TheValue(ground_truth_lattice))

AnsRelationships == extract_relationships(TheValue(answer_lattice))

GtVocabulary == TheValue(ground_truth_context).attributes

\* The answer relationships absent from the ground truth whose two
\* attributes are both in the ground-truth vocabulary
AbsentInVocabulary ==
    {p \in AnsRelationships :
        /\ p \notin GtRelationships
        /\ p[1] \in GtVocabulary
        /\ p[2] \in GtVocabulary}

VerifyReturned == returned.op = "verify"

DetectReturned == returned.op = "detect"

\* C4: scenario B (citations "The sky is blue." "Clouds are white.", answer
\* "The sky is blue and green. Stars are visible during the day.") reports at
\* least one hallucinated pair, absent from the ground-truth relationships,
\* and a confidence below 1.0.
C4_ScenarioBFlagged ==
    (/\ citations = ScenarioCitations
     /\ answer = AnswerB
     /\ VerifyReturned)
    => /\ Len(returned.value.hallucinated_edges) >= 1
       /\ \A p \in SeqSet(returned.value.hallucinated_edges) :
              p \notin GtRelationships
       /\ FracLess(returned.value.confidence, Frac(1, 1))

\* C5: scenario A (the same citations, answer "The sky is blue and has white
\* clouds.") is reported VALID with no hallucinated pair, by verify and by
\* detect.
C5_ScenarioAValid ==
    (citations = ScenarioCitations /\ answer = AnswerA)
    => /\ VerifyReturned =>
              /\ returned.value.is_valid
              /\ returned.value.hallucinated_edges = <<>>
       /\ DetectReturned =>
              /\ returned.value.status = "VALID"
              /\ returned.value.hallucinations = <<>>

C5_Witness ==
    /\ citations = ScenarioCitations
    /\ answer = AnswerA
    /\ DetectReturned
    /\ returned.value.status = "VALID"
    /\ Cardinality(GtRelationships) = 42

\* C6: with an empty answer string or an empty citation list, verify and
\* detect return a result (no error entry), the empty side contributes zero
\* relationships, the confidence is 1.0 and the result is valid (VALID).
C6_EmptyInputsValid ==
    (answer = <<>> \/ citations = <<>>)
    => /\ VerifyReturned =>
              /\ "error" \notin DOMAIN returned.value
              /\ answer = <<>> => returned.value.answer_relationships = 0
              /\ citations = <<>> =>
                     returned.value.ground_truth_relationships = 0
              /\ returned.value.confidence = Frac(1, 1)
              /\ returned.value.is_valid
       /\ DetectReturned =>
              /\ returned.value.status = "VALID"
              /\ returned.value.confidence = Frac(1, 1)

C6_Witness ==
    /\ answer = <<>>
    /\ citations = ScenarioCitations
    /\ VerifyReturned
    /\ returned.value.ground_truth_relationships = 42
    /\ returned.value.answer_concepts = 1

\* C7: verify's hallucinated_edges are exactly the answer relationships that
\* are absent from the ground-truth relationships and have both attributes
\* in the ground-truth vocabulary, each listed once; a pair with an
\* attribute outside that vocabulary is never listed.
C7_HallucinatedExact ==
    VerifyReturned
    => /\ SeqSet(returned.value.hallucinated_edges) = AbsentInVocabulary
       /\ NoDuplicates(returned.value.hallucinated_edges)
       /\ \A p \in SeqSet(returned.value.hallucinated_edges) :
              p[1] \in GtVocabulary /\ p[2] \in GtVocabulary

C7_Witness ==
    /\ VerifyReturned
    /\ Len(returned.value.hallucinated_edges) = 2
    /\ \E p \in AnsRelationships :
           p \notin GtRelationships /\ p[2] \notin GtVocabulary

\* C8: verify's confidence is 1.0 when the answer has no relationships and
\* otherwise (|relationships(answer)| - |hallucinated|) divided by
\* |relationships(answer)|; it lies in [0, 1].
C8_ConfidenceFormula ==
    VerifyReturned
    => LET n == Cardinality(AnsRelationships)
           h == Cardinality(AbsentInVocabulary)
           conf == returned.value.confidence
       IN  /\ n = 0 => conf = Frac(1, 1)
           /\ n > 0 => conf.num * n = (n - h) * conf.den
           /\ conf.den > 0
           /\ 0 <= conf.num
           /\ conf.num <= conf.den

C8_Witness ==
    /\ VerifyReturned
    /\ returned.value.confidence = Frac(2, 3)
    /\ Cardinality(AnsRelationships) = 6

\* C9: detect's status is VALID exactly when the hallucinated set is empty
\* and HALLUCINATION_DETECTED otherwise, and its hallucinations list holds
\* exactly one finding per hallucinated pair, naming the pair with severity
\* HIGH, so the list is empty exactly when the status is VALID.
C9_ReportMatchesHallucinated ==
    DetectReturned
    => LET out == returned.value
       IN  /\ out.status = IF AbsentInVocabulary = {} THEN "VALID"
                           ELSE "HALLUCINATION_DETECTED"
           /\ Len(out.hallucinations) = Cardinality(AbsentInVocabulary)
           /\ \A p \in AbsentInVocabulary :
                  \E k \in 1..Len(out.hallucinations) :
                      /\ out.hallucinations[k].description[2] = p[1]
                      /\ out.hallucinations[k].description[3] = p[2]
           /\ \A k \in 1..Len(out.hallucinations) :
                  out.hallucinations[k].severity = "HIGH"
           /\ out.hallucinations = <<>> <=> out.status = "VALID"

C9_Witness ==
    /\ DetectReturned
    /\ returned.value.status = "HALLUCINATION_DETECTED"
    /\ Len(returned.value.hallucinations) = 2

\* What the determinism claim compares of a verify result
Observed(value) ==
    [is_valid |-> value.is_valid,
     confidence |-> value.confidence,
     hallucinated |-> SeqSet(value.hallucinated_edges),
     ground_truth_metrics |-> value.ground_truth_metrics,
     answer_metrics |-> value.answer_metrics]

\* C10: two verify calls with the same citations and answer return the same
\* is_valid, confidence, hallucinated set and metrics, whatever was built
\* and whatever the random generator drew in between.
C10_VerifyDeterministic ==
    (VerifyReturned /\ previous # None)
    => Observed(returned.value) = Observed(TheValue(previous))

C10_Witness ==
    /\ VerifyReturned
    /\ previous # None
    /\ rng # 0
    /\ stability # None
    /\ ~ returned.value.is_valid

(***************************************************************************)
(* Statelessness of the verifier                                           *)
(***************************************************************************)
\* verify(c, a) on a TruthVerifier on which nothing was called before: both
\* fields are None when the call begins and hold the lattices of c and of a
\* when check_topological_isomorphism reads them.
FreshVerify(c, a) ==
    LET gtc == text_to_context(JoinCitations(c))
        ansc == text_to_context(a)
    IN  VerifyResult(Some(ConceptLattice(generate_all_concepts(gtc))),
                     Some(ConceptLattice(generate_all_concepts(ansc))),
                     Some(gtc))

\* C11: after any sequence of earlier build, verify and detect calls on the
\* same instance, verify(citations, answer) returns what it returns on a
\* newly constructed instance, and so does detect: nothing an earlier call
\* left in the instance is used.
C11_StatelessAcrossCalls ==
    /\ VerifyReturned =>
           returned.value = FreshVerify(returned.citations, returned.answer)
    /\ DetectReturned =>
           returned.value =
               DetectOutput(FreshVerify(returned.citations, returned.answer))

C11_Witness ==
    /\ VerifyReturned
    /\ held[1] # None
    /\ held[2] # None
    /\ held[1] # ground_truth_context
    /\ held[2] # answer_context
    /\ ~ returned.value.is_valid

(***************************************************************************)
(* Properties of FormalContext                                             *)
(***************************************************************************)
ClosureReturned == returned.op = "closure"

\* C12: closure is idempotent: closure applied to the set an earlier
\* closure call returned gives that set back.
C12_ClosureIdempotent ==
    (/\ ClosureReturned
     /\ previous # None
     /\ returned.attributes = TheValue(previous).value)
    => returned.value = returned.attributes

C12_Witness ==
    /\ ClosureReturned
    /\ previous # None
    /\ returned.attributes = TheValue(previous).value
    /\ TheValue(previous).attributes # TheValue(previous).value
    /\ TheValue(previous).attributes \subseteq context.attributes
    /\ returned.value # context.attributes

\* C13: closure is extensive: whatever set of attribute identifiers is passed
\* to closure, the set it returns contains it.
C13_ClosureExtensive ==
    ClosureReturned => returned.attributes \subseteq returned.value

\* C14: closure is monotone: when the argument of a closure call includes
\* the argument of the closure call before it, its result includes that
\* call's result.
C14_ClosureMonotone ==
    (/\ ClosureReturned
     /\ previous # None
     /\ TheValue(previous).attributes \subseteq returned.attributes)
    => TheValue(previous).value \subseteq returned.value

C14_Witness ==
    /\ ClosureReturned
    /\ previous # None
    /\ TheValue(previous).attributes \subseteq returned.attributes
    /\ TheValue(previous).attributes # returned.attributes
    /\ TheValue(previous).value # returned.value
    /\ TheValue(previous).value # {}
    /\ returned.attributes \subseteq context.attributes

\* The objects of ctx that the incidence relation gives every attribute of
\* attrs, and the attributes it gives to every object of objs
HaveAll(ctx, attrs) ==
    {g \in ctx.objects :
        \A m \in attrs : m \in ctx.attributes /\ <<g, m>> \in ctx.incidence}

SharedBy(ctx, objs) ==
    {m \in ctx.attributes :
        \A g \in objs : g \in ctx.objects /\ <<g, m>> \in ctx.incidence}

DeriveExtentReturned == returned.op = "derive_extent"

DeriveIntentReturned == returned.op = "derive_intent"

\* C15: derive_extent(attrs) is exactly the set of objects that have every
\* attribute of attrs, the intersection of the objects of each attribute,
\* and all objects for the empty set; derive_intent(objs) is exactly the set
\* of attributes shared by every object of objs, and all attributes for the
\* empty set.
C15_DerivationOperators ==
    /\ DeriveExtentReturned =>
           /\ returned.value = HaveAll(context, returned.attributes)
           /\ \A g \in ObjectIds :
                  g \in returned.value <=>
                      /\ g \in context.objects
                      /\ \A a \in returned.attributes :
                             g \in get_objects(context, a)
           /\ returned.attributes = {} => returned.value = context.objects
    /\ DeriveIntentReturned =>
           /\ returned.value = SharedBy(context, returned.objects)
           /\ \A m \in AttributeIds :
                  m \in returned.value <=>
                      /\ m \in context.attributes
                      /\ \A g \in returned.objects :
                             m \in get_attributes(context, g)
           /\ returned.objects = {} => returned.value = context.attributes

C15_Witness ==
    /\ DeriveExtentReturned
    /\ Cardinality(returned.attributes) = 2
    /\ returned.attributes \subseteq context.attributes
    /\ returned.value # {}
    /\ returned.value # context.objects

\* The pairs of a context's incidence that name an undeclared object or an
\* undeclared attribute, and the same context built without them
StrayPairs(ctx) == ctx.incidence \ (ctx.objects \X ctx.attributes)

WithoutStrayPairs(ctx) ==
    FormalContext(ctx.objects, ctx.attributes,
                  ctx.incidence \ StrayPairs(ctx))

GenerateReturned == returned.op = "generate_all_concepts"

LatticeReturned == returned.op = "ConceptLattice"

\* C16: a context built with an incidence pair whose object or attribute is
\* not declared is constructed, and its derive_extent, derive_intent and
\* closure, for every argument, and the concepts generated from it are those
\* of the same context built without that pair.
C16_StrayPairsIgnored ==
    LET clean == WithoutStrayPairs(context)
    IN  /\ \A X \in SUBSET AttributeIds :
               /\ derive_extent(context, X) = derive_extent(clean, X)
               /\ closure(context, X) = closure(clean, X)
        /\ \A B \in SUBSET ObjectIds :
               derive_intent(context, B) = derive_intent(clean, B)
        /\ GenerateReturned =>
               returned.value = generate_all_concepts(clean)
        /\ LatticeReturned =>
               returned.value.concepts = generate_all_concepts(clean)

C16_Witness ==
    /\ GenerateReturned
    /\ <<1, 0>> \in StrayPairs(context)
    /\ <<1, 1>> \in context.incidence
    /\ Len(returned.value) >= 2

\* C17: in every constructed context the lookup tables agree with the stored
\* incidence relation: for all g and m, (g, m) is in context.incidence iff m
\* is in get_attributes(g) iff g is in get_objects(m).
C17_TablesMatchIncidence ==
    \A g \in ObjectIds, m \in AttributeIds :
        /\ <<g, m>> \in context.incidence <=> m \in get_attributes(context, g)
        /\ m \in get_attributes(context, g) <=> g \in get_objects(context, m)

(***************************************************************************)
(* Properties of the concepts and of the lattice                           *)
(***************************************************************************)
\* C18: every concept generate_all_concepts emits is closed on both sides
\* in its context: its intent is derive_intent of its extent, the attributes
\* shared by all objects of the extent, and its extent is derive_extent of
\* its intent, the objects that have all attributes of the intent.
C18_ConceptsClosed ==
    \A k \in 1..Len(concepts) :
        /\ concepts[k].intent = derive_intent(context, concepts[k].extent)
        /\ concepts[k].extent = derive_extent(context, concepts[k].intent)
        /\ concepts[k].intent = SharedBy(context, concepts[k].extent)
        /\ concepts[k].extent = HaveAll(context, concepts[k].intent)

C18_Witness ==
    /\ pc = "returned"
    /\ context = AnimalsContext
    /\ \E k \in 1..Len(concepts) :
           concepts[k] = FormalConcept({2, 3}, {2, 3})
    /\ \E k \in 1..Len(concepts) :
           concepts[k] = FormalConcept({1, 2, 3}, {3})

\* The nodes reached from the nodes S along the directed edges
RECURSIVE ReachableFrom(_, _)
ReachableFrom(lattice, S) ==
    LET T == S \cup {w \in lattice.nodes :
                        \E v \in S : <<v, w>> \in lattice.edges}
    IN  IF T = S THEN S ELSE ReachableFrom(lattice, T)

\* A directed path of at least one edge from c1 to c2
HasPath(lattice, c1, c2) ==
    c2 \in ReachableFrom(lattice, successors(lattice, c1))

\* C19: in a lattice built from generated concepts, for all concepts
\* c1 # c2, intent(c1) is a strict superset of intent(c2) if and only if the
\* covering graph has a directed path from c1 to c2.
C19_OrderIsReachability ==
    LatticeReturned
    => \A c1, c2 \in returned.value.nodes :
           c1 # c2 =>
               (ProperSuperset(c1.intent, c2.intent)
                    <=> HasPath(returned.value, c1, c2))

C19_Witness ==
    /\ LatticeReturned
    /\ context = AnimalsContext
    /\ \E c1, c2 \in returned.value.nodes :
           /\ HasPath(returned.value, c1, c2)
           /\ <<c1, c2>> \notin returned.value.edges
    /\ \E c1, c2 \in returned.value.nodes :
           /\ c1 # c2
           /\ ~ HasPath(returned.value, c1, c2)
           /\ ~ HasPath(returned.value, c2, c1)

\* C20: the covering graph has an edge c1 -> c2 exactly when intent(c1) is a
\* strict superset of intent(c2) and no concept of the lattice has an intent
\* strictly between the two; it has no self-loop and no transitive edge (an
\* edge whose ends are also joined by a longer path).
C20_EdgesAreCovers ==
    LatticeReturned
    => LET lattice == returned.value
       IN  /\ lattice.edges \subseteq lattice.nodes \X lattice.nodes
           /\ \A c1, c2 \in lattice.nodes :
                  <<c1, c2>> \in lattice.edges <=>
                      /\ ProperSuperset(c1.intent, c2.intent)
                      /\ \A k \in 1..Len(lattice.concepts) :
                             ~ (/\ ProperSuperset(c1.intent,
                                                  lattice.concepts[k].intent)
                                /\ ProperSuperset(lattice.concepts[k].intent,
                                                  c2.intent))
           /\ \A c \in lattice.nodes : <<c, c>> \notin lattice.edges
           /\ \A e \in lattice.edges :
                  ~ \E c3 \in lattice.nodes \ {e[1], e[2]} :
                        /\ HasPath(lattice, e[1], c3)
                        /\ HasPath(lattice, c3, e[2])

C20_Witness ==
    /\ LatticeReturned
    /\ context = AnimalsContext
    /\ Len(returned.value.concepts) = 6
    /\ Cardinality(returned.value.edges) = 7

(***************************************************************************)
(* Properties of the lattice metrics                                       *)
(***************************************************************************)
TheLattice == TheValue(caller_lattice)

DensityReturned == returned.op = "calculate_density"

\* C21: calculate_density returns edge_count / concept_count^2; the value
\* is at least 0 and below 1 for every lattice, and it is 0 for a lattice
\* of zero concepts or of one concept.
C21_DensityBound ==
    DensityReturned
    => LET n == Len(TheLattice.concepts)
           density == returned.value
       IN  /\ density.den > 0
           /\ n > 0 =>
                  density.num * (n * n) =
                      Cardinality(TheLattice.edges) * density.den
           /\ 0 <= density.num
           /\ density.num < density.den
           /\ n \in {0, 1} => density = Frac(0, 1)

C21_Witness ==
    /\ DensityReturned
    /\ context = AnimalsContext
    /\ returned.value = Frac(7, 36)

BettiReturned == returned.op = "calculate_betti_numbers"

\* The nodes joined to v by edges taken in either direction
UndirectedReach(lat, v) ==
    ReachableFrom([lat EXCEPT !.edges =
                       lat.edges \cup {<<e[2], e[1]>> : e \in lat.edges}],
                  {v})

\* C22: calculate_betti_numbers returns beta_0 = the number of connected
\* components of the undirected covering graph and beta_1 = the sum over the
\* components of (edges - nodes + 1), that is edges - nodes + components;
\* beta_0 >= 1 for every non-empty lattice and beta_1 >= 0 for every
\* lattice.
C22_BettiNumbers ==
    BettiReturned
    => LET betti == returned.value
           components ==
               {UndirectedReach(TheLattice, v) : v \in TheLattice.nodes}
           EdgesIn(comp) ==
               Cardinality({e \in TheLattice.edges :
                               e[1] \in comp /\ e[2] \in comp})
       IN  /\ betti.beta_0 = Cardinality(components)
           /\ betti.beta_1 =
                  Cardinality(TheLattice.edges)
                      - Cardinality(TheLattice.nodes) + betti.beta_0
           /\ \A comp \in components :
                  EdgesIn(comp) - Cardinality(comp) + 1 >= 0
           /\ Len(TheLattice.concepts) > 0 => betti.beta_0 >= 1
           /\ betti.beta_1 >= 0

C22_Witness ==
    /\ BettiReturned
    /\ context = AnimalsContext
    /\ returned.value.beta_0 = 1
    /\ returned.value.beta_1 = 2

GetTopReturned == returned.op = "get_top"

GetBottomReturned == returned.op = "get_bottom"

\* The caller's lattice was built from the concepts generated for context
FromGenerated ==
    TheLattice.concepts = generate_all_concepts(context)

\* C23: for every non-empty lattice built from the concepts generated for a
\* context, get_top returns the most general concept, the one with empty
\* intent of which every other concept is a subconcept, and get_bottom
\* returns a concept whose intent cardinality is maximal.
C23_TopAndBottom ==
    (caller_lattice # None /\ FromGenerated)
    => /\ GetTopReturned =>
              /\ returned.value # None
              /\ TheValue(returned.value) \in TheLattice.nodes
              /\ TheValue(returned.value).intent = {}
              /\ \A c \in TheLattice.nodes \ returned.value :
                     ProperSuperset(c.intent, TheValue(returned.value).intent)
       /\ GetBottomReturned =>
              /\ "raised" \notin DOMAIN returned
              /\ returned.value # None
              /\ TheValue(returned.value) \in TheLattice.nodes
              /\ \A c \in TheLattice.nodes :
                     Cardinality(c.intent)
                         <= Cardinality(TheValue(returned.value).intent)

\* C24: on an empty lattice both get_top and get_bottom report None.
C24_EmptyLatticeReportsNone ==
    (/\ caller_lattice # None
     /\ Len(TheLattice.concepts) = 0
     /\ GetTopReturned \/ GetBottomReturned)
    => /\ "raised" \notin DOMAIN returned
       /\ returned.value = None

StabilityReturned == returned.op = "calculate_stability_index"

\* The trials of the returned call whose subset still derives the
\* concept's intent
PreservedTrials ==
    {k \in 1..returned.samples :
        derive_intent(context, returned.draws[k]) = returned.concept.intent}

\* C25: calculate_stability_index returns the fraction of the sampled
\* non-empty subsets of the concept's extent whose derived intent still
\* equals the concept's intent, and 1.0 for a concept with empty extent.
C25_StabilityIsPreservedFraction ==
    StabilityReturned
    => IF returned.concept.extent = {}
       THEN returned.value = Frac(1, 1)
       ELSE returned.value =
                Frac(Cardinality(PreservedTrials), returned.samples)

(***************************************************************************)
(* Properties of extract_relationships                                     *)
(***************************************************************************)
ExtractReturned == returned.op = "extract_relationships"

\* Every attribute named by a concept of the caller's lattice
LatticeAttributes == UNION {c.intent : c \in TheLattice.nodes}

\* C26: extract_relationships returns exactly the ordered pairs (a, b),
\* a # b, such that a and b both belong to the intent of some concept with
\* at least one outgoing covering edge; a concept without a superconcept
\* contributes no pair.
C26_RelationshipsExact ==
    ExtractReturned
    => /\ returned.value \subseteq LatticeAttributes \X LatticeAttributes
       /\ \A a, b \in LatticeAttributes :
              <<a, b>> \in returned.value <=>
                  /\ a # b
                  /\ \E c \in TheLattice.nodes :
                         /\ a \in c.intent
                         /\ b \in c.intent
                         /\ \E d \in TheLattice.nodes :
                                <<c, d>> \in TheLattice.edges

C26_Witness ==
    /\ ExtractReturned
    /\ Cardinality(returned.value) = 2
    /\ \E c \in TheLattice.nodes :
           /\ c.intent = {1}
           /\ successors(TheLattice, c) = {}
    /\ \E c \in TheLattice.nodes :
           /\ c.intent = {1, 2}
           /\ successors(TheLattice, c) # {}

ExecuteReturned == returned.op = "execute"

\* C27: execute(max_steps) always returns a status among NO_GRAVITY_WELLS,
\* ESCAPE_ACHIEVED and ESCAPE_INCOMPLETE.  It is NO_GRAVITY_WELLS exactly
\* when no trapped particle was detected, and then no particle was
\* injected and the field was not stepped.  Otherwise min(3, number of
\* coherence tokens) lift particles were injected, and the result is
\* ESCAPE_ACHIEVED with steps_to_escape < max_steps at the first update
\* after which phase-lock holds, or ESCAPE_INCOMPLETE after exactly
\* max_steps updates.
C27_ExecuteReturnsStatus ==
    ExecuteReturned =>
        IF "raised" \in DOMAIN returned.value
        THEN FALSE
        ELSE LET status == returned.value.status
                 lifts == Min(3, Len(protocol.coherence_tokens))
             IN  /\ status \in {"NO_GRAVITY_WELLS", "ESCAPE_ACHIEVED",
                                "ESCAPE_INCOMPLETE"}
                 /\ status = "NO_GRAVITY_WELLS" <=> returned.trapped = <<>>
                 /\ returned.trapped = <<>> =>
                        /\ returned.after = returned.before
                        /\ returned.updates = 0
                 /\ returned.trapped # <<>> =>
                        /\ Len(returned.after.particles)
                             = Len(returned.before.particles) + lifts
                        /\ returned.after.time
                             = returned.before.time + returned.updates
                        /\ status = "ESCAPE_ACHIEVED" =>
                             /\ returned.value.steps_to_escape
                                    < returned.max_steps
                             /\ returned.updates
                                    = returned.value.steps_to_escape + 1
                             /\ check_phase_lock(returned.after, protocol)
                        /\ status = "ESCAPE_INCOMPLETE" =>
                             returned.updates = returned.max_steps

\* The halves of C27 that the code does keep: the early return, and the
\* timeout return when the loop has no iteration to run.
ExecuteReturnedNoWells ==
    /\ ExecuteReturned
    /\ "raised" \notin DOMAIN returned.value
    /\ returned.value.status = "NO_GRAVITY_WELLS"
    /\ Len(returned.before.particles) = 2

ExecuteReturnedIncomplete ==
    /\ ExecuteReturned
    /\ "raised" \notin DOMAIN returned.value
    /\ returned.value.status = "ESCAPE_INCOMPLETE"
    /\ Len(returned.after.particles) = 5

ExecuteRaised ==
    /\ ExecuteReturned
    /\ "raised" \in DOMAIN returned.value

\* Every execute call that ended otherwise than by raising meets C27
ExecuteStatusWhenReturned == ExecuteRaised \/ C27_ExecuteReturnsStatus

\* execute raises exactly when a particle is trapped and max_steps >= 1
ExecuteRaisesWhenStepping ==
    ExecuteReturned =>
        (ExecuteRaised <=>
            (returned.trapped # <<>> /\ returned.max_steps >= 1))

\* C28: for a lattice built from the generated concepts of a context,
\* extract_relationships returns the empty set when the lattice has exactly
\* one concept and otherwise every ordered pair of distinct attributes of
\* the whole context.
C28_RelationshipsDegenerate ==
    (ExtractReturned /\ FromGenerated)
    => returned.value =
           IF Len(TheLattice.concepts) = 1 THEN {}
           ELSE {p \in context.attributes \X context.attributes :
                    p[1] # p[2]}

C28_Witness ==
    /\ ExtractReturned
    /\ FromGenerated
    /\ context = AnimalsContext
    /\ Cardinality(returned.value) = 12
    /\ <<1, 4>> \in returned.value

LastIntent == concepts[Len(concepts)].intent

\* C30: for every finite context, one with no objects or no attributes
\* included, the generate_all_concepts loop terminates; it has then emitted
\* at least one concept; next_closure returns None exactly when the intent
\* it is given, the last one emitted, is the full attribute set; and the
\* concept of the full attribute set is the last one emitted.
C30_GenerationTerminates ==
    /\ <>(pc = "returned")
    /\ [](pc = "returned" =>
              /\ Len(concepts) >= 1
              /\ LastIntent = context.attributes
              /\ \A k \in 1..(Len(concepts) - 1) :
                     concepts[k].intent # context.attributes)
    /\ []((pc = "loop" /\ Len(concepts) >= 1) =>
              (current = None <=> LastIntent = context.attributes))

C30_Witness ==
    /\ pc = "returned"
    /\ context.objects = {}
    /\ Cardinality(context.attributes) = 2
    /\ Len(concepts) = 1

====
